---- MODULE Spec2Model ----
(***************************************************************************)
(* Model of src/app.py: the segment-extraction-and-set-diff pipeline of    *)
(* the reference/presentation comparison tool (clean_text,                 *)
(* split_into_segments, get_docx_text, get_pptx_text, call_qwen_analysis   *)
(* and the Streamlit script body).                                         *)
(*                                                                         *)
(* A Python str is a sequence of characters; a character is a one-element  *)
(* token: ASCII characters stand for themselves, other code points are     *)
(* written "Uxxxx" (U3002 is the ideographic full stop).                   *)
(***************************************************************************)
EXTENDS Integers, Sequences, FiniteSets, TLC

VARIABLES
    arg,            \* argument of a direct call of one of the functions
    ret,            \* what that call returned
    base_file,      \* st.file_uploader "1" : the uploaded reference document
    student_file,   \* st.file_uploader "2" : the uploaded presentation
    api_key,        \* st.sidebar.text_input
    ui,             \* what the last run of the script rendered and computed
    run,            \* where the script thread of the session stands
    dashscope_api_key   \* dashscope.api_key, a global of the process

vars == <<arg, ret, base_file, student_file, api_key, ui, run, dashscope_api_key>>

(***************************************************************************)
(* Bounds of the model                                                     *)
(***************************************************************************)
MaxLen == 5          \* longest text handed to clean_text / split_into_segments
MaxRows == 2         \* rows of the varied table of a reference document
MaxParas == 1        \* paragraphs of a reference document (0..MaxParas)
MaxItems == 2        \* text shapes of a presentation (0..MaxItems)
MaxGhost == 51       \* shapes of the largest generated presentation
LongLen == 30001     \* characters of the longest reference paragraph

(***************************************************************************)
(* Python values                                                           *)
(***************************************************************************)
None == <<"None">>   \* Python's None where a str is expected (no character is "None")

\* str.isspace(): the characters str.split() with no argument splits on
Whitespace ==
    {" ", "\t", "\n", "\r", "\f", "U000B", "U001C", "U001D", "U001E", "U001F",
     "U0085", "U00A0", "U1680", "U2000", "U2001", "U2002", "U2003", "U2004",
     "U2005", "U2006", "U2007", "U2008", "U2009", "U200A", "U2028", "U2029",
     "U202F", "U205F", "U3000"}

\* the ASCII full stop, semicolon, exclamation and question mark split too
TerminatorsWithAscii ==
    {"U3002", "UFF1B", "UFF01", "UFF1F", "\n", ".", ";", "!", "?"}

\* the character class of the regular expression of split_into_segments:
\* ideographic full stop, full-width semicolon, exclamation mark, question
\* mark, and the newline
Terminators == {"U3002", "UFF1B", "UFF01", "UFF1F", "\n"}

(***************************************************************************)
(* 1. clean_text and split_into_segments                                   *)
(***************************************************************************)
IsSpace(c) == c \in Whitespace

\* "".join(text.split()) for a str: its characters that are not whitespace
JoinSplit(text) == SelectSeq(text, LAMBDA c : ~IsSpace(c))

clean_text_keep_ws(text) == IF text = None \/ text = <<>> THEN <<>> ELSE text

clean_text(text) == IF text = None \/ text = <<>> THEN <<>> ELSE JoinSplit(text)

\* 1, 2, ..., n
Indices(n) == SubSeq([i \in 1..n |-> i], 1, n)

\* the positions, in order, at which a maximal non-empty run of characters
\* that are not terminators starts
PieceStarts(s) ==
    SelectSeq(Indices(Len(s)),
              LAMBDA i : s[i] \notin Terminators /\ (i = 1 \/ s[i-1] \in Terminators))

\* the positions, in order, at which such a run ends
PieceEnds(s) ==
    LET n == Len(s)
    IN  SelectSeq(Indices(n),
              LAMBDA i : s[i] \notin Terminators /\ (i = n \/ s[i+1] \in Terminators))

\* re.split(r'[<Terminators>]+', s): the runs between the maximal terminator
\* runs, in order, with an empty string in front when s is empty or starts
\* with a terminator and an empty string behind when s ends with one
re_split(s) ==
    LET starts == PieceStarts(s)
        ends   == PieceEnds(s)
        lead   == IF Len(s) = 0 \/ s[1] \in Terminators THEN << <<>> >> ELSE <<>>
        trail  == IF Len(s) > 0 /\ s[Len(s)] \in Terminators THEN << <<>> >> ELSE <<>>
        mid    == [k \in 1..Len(starts) |-> SubSeq(s, starts[k], ends[k])]
    IN  lead \o mid \o trail

split_into_segments(full_text) ==
    LET segments == re_split(full_text)
        cleaned_segments ==
            SelectSeq([k \in 1..Len(segments) |-> clean_text(segments[k])],
                      LAMBDA cleaned : Len(cleaned) > 2)
    IN  {cleaned_segments[k] : k \in 1..Len(cleaned_segments)}

(***************************************************************************)
(* 2. get_docx_text                                                        *)
(*                                                                         *)
(* A parsed reference document, as the extractor sees it through docx:     *)
(*   [parse_exc, paragraphs, tables]                                       *)
(*   table : [rows_exc, rows]                                              *)
(*   row   : [cells_exc, cells, tc_exc, tc_lst]                            *)
(*   cell  : [text_exc, text]            (row.cells, cell.text)            *)
(*   tc    : [p_exc, p_lst]              (row._element.tc_lst, cell.p_lst) *)
(*   p     : [xpath_exc, t_nodes]        (p.xpath('.//w:t'), node.text)    *)
(* Every *_exc field names the exception the library call raises there,    *)
(* "none" when it returns.  A walk returns the fragments it appended to    *)
(* full_text and the exception that left it.                               *)
(***************************************************************************)
NoExc == "none"
Structural == {"ValueError", "IndexError"}   \* except (ValueError, IndexError)

RECURSIVE JoinRange(_, _, _, _)
\* sep.join(ss[lo..hi]) for lo <= hi, by halves
JoinRange(ss, sep, lo, hi) ==
    IF lo = hi THEN ss[lo]
    ELSE LET mid == (lo + hi) \div 2
         IN  JoinRange(ss, sep, lo, mid) \o sep \o JoinRange(ss, sep, mid + 1, hi)

\* "".join(list of str)
Concat(ss) == IF Len(ss) = 0 THEN <<>> ELSE JoinRange(ss, <<>>, 1, Len(ss))

\* "\n".join(list of str)
JoinNL(ss) == IF Len(ss) = 0 THEN <<>> ELSE JoinRange(ss, <<"\n">>, 1, Len(ss))

\* "".join([node.text for node in t_nodes if node.text])
text_content(t_nodes) ==
    Concat(SelectSeq(t_nodes, LAMBDA t : t # None /\ t # <<>>))

RECURSIVE ReadCells(_, _)
\* for cell in row.cells: full_text.append(cell.text)      (cells i..)
ReadCells(cells, i) ==
    IF i > Len(cells) THEN [out |-> <<>>, exc |-> NoExc]
    ELSE IF cells[i].text_exc # NoExc THEN [out |-> <<>>, exc |-> cells[i].text_exc]
    ELSE LET rest == ReadCells(cells, i + 1)
         IN  [out |-> <<cells[i].text>> \o rest.out, exc |-> rest.exc]

\* the direct read of a row: row.cells, then every cell.text
ReadDirect(row) ==
    IF row.cells_exc # NoExc THEN [out |-> <<>>, exc |-> row.cells_exc]
    ELSE ReadCells(row.cells, 1)

RECURSIVE ReadParas(_, _)
\* for p in cell.p_lst: full_text.append(text_content)     (paragraphs i..)
ReadParas(p_lst, i) ==
    IF i > Len(p_lst) THEN [out |-> <<>>, exc |-> NoExc]
    ELSE IF p_lst[i].xpath_exc # NoExc THEN [out |-> <<>>, exc |-> p_lst[i].xpath_exc]
    ELSE LET rest == ReadParas(p_lst, i + 1)
         IN  [out |-> <<text_content(p_lst[i].t_nodes)>> \o rest.out, exc |-> rest.exc]

RECURSIVE ReadTcs(_, _)
\* for cell in row._element.tc_lst: for p in cell.p_lst: ...   (cells i..)
ReadTcs(tc_lst, i) ==
    IF i > Len(tc_lst) THEN [out |-> <<>>, exc |-> NoExc]
    ELSE IF tc_lst[i].p_exc # NoExc THEN [out |-> <<>>, exc |-> tc_lst[i].p_exc]
    ELSE LET here == ReadParas(tc_lst[i].p_lst, 1)
         IN  IF here.exc # NoExc THEN here
             ELSE LET rest == ReadTcs(tc_lst, i + 1)
                  IN  [out |-> here.out \o rest.out, exc |-> rest.exc]

\* the raw-markup read of a row; the bare except swallows whatever it raises
ReadFallback(row) ==
    IF row.tc_exc # NoExc THEN [out |-> <<>>, exc |-> NoExc]
    ELSE [out |-> ReadTcs(row.tc_lst, 1).out, exc |-> NoExc]

\* a row whose direct read fails is left out instead of being read again
ReadRowNoFallback(row) ==
    LET d == ReadDirect(row)
    IN  IF d.exc \in Structural THEN [out |-> d.out, exc |-> NoExc] ELSE d

\* the body of "for row in table.rows": lines 46-63
ReadRow(row) ==
    LET d == ReadDirect(row)
    IN  IF d.exc \in Structural
        THEN [out |-> d.out \o ReadFallback(row).out, exc |-> NoExc]
        ELSE d

RECURSIVE ReadRows(_, _)
\* for row in table.rows: ...                               (rows i..)
ReadRows(rows, i) ==
    IF i > Len(rows) THEN [out |-> <<>>, exc |-> NoExc]
    ELSE LET here == ReadRow(rows[i])
         IN  IF here.exc # NoExc THEN here
             ELSE LET rest == ReadRows(rows, i + 1)
                  IN  [out |-> here.out \o rest.out, exc |-> rest.exc]

\* the body of "for i, table in enumerate(doc.tables)": lines 44-66; the
\* except Exception keeps what the rows appended and goes on
ReadTable(table) ==
    IF table.rows_exc # NoExc THEN [out |-> <<>>, exc |-> NoExc]
    ELSE [out |-> ReadRows(table.rows, 1).out, exc |-> NoExc]

RECURSIVE ReadTables(_, _)
\* for i, table in enumerate(doc.tables): ...              (tables i..)
ReadTables(tables, i) ==
    IF i > Len(tables) THEN <<>>
    ELSE ReadTable(tables[i]).out \o ReadTables(tables, i + 1)

\* the fragment list at line 68
docx_full_text(doc) == doc.paragraphs \o ReadTables(doc.tables, 1)

\* returns (segments, merged_text); st_error is what st.error was given,
\* raised is whether an exception left the function, full_text is the local
get_docx_text(docx_file) ==
    IF docx_file.parse_exc
    THEN [segments |-> {}, merged_text |-> <<>>, st_error |-> <<"docx">>,
          raised |-> FALSE, full_text |-> <<>>]
    ELSE LET full_text   == docx_full_text(docx_file)
             merged_text == JoinNL(full_text)
         IN  [segments |-> split_into_segments(merged_text),
              merged_text |-> merged_text, st_error |-> <<>>,
              raised |-> FALSE, full_text |-> full_text]

(***************************************************************************)
(* 3. get_pptx_text                                                        *)
(*                                                                         *)
(* A parsed presentation: [parse_exc, slides], a slide a sequence of       *)
(* shapes, a shape                                                         *)
(*   [has_text, has_text_frame, text, has_table, rows_exc, rows]           *)
(* with has_text for hasattr(shape, "text") and rows for shape.table.rows, *)
(* a row a sequence of cells [text_exc, text].                             *)
(***************************************************************************)
RECURSIVE WalkCells(_, _)
\* for cell in row.cells: full_text.append(cell.text)      (cells i..)
WalkCells(cells, i) ==
    IF i > Len(cells) THEN [out |-> <<>>, exc |-> NoExc]
    ELSE IF cells[i].text_exc # NoExc THEN [out |-> <<>>, exc |-> cells[i].text_exc]
    ELSE LET rest == WalkCells(cells, i + 1)
         IN  [out |-> <<cells[i].text>> \o rest.out, exc |-> rest.exc]

RECURSIVE WalkRows(_, _)
\* for row in shape.table.rows: ...                          (rows i..)
WalkRows(rows, i) ==
    IF i > Len(rows) THEN [out |-> <<>>, exc |-> NoExc]
    ELSE LET here == WalkCells(rows[i], 1)
         IN  IF here.exc # NoExc THEN here
             ELSE LET rest == WalkRows(rows, i + 1)
                  IN  [out |-> here.out \o rest.out, exc |-> rest.exc]

\* the body of "for shape in slide.shapes": lines 84-89
WalkShape(shape) ==
    LET frame == IF shape.has_text /\ shape.has_text_frame THEN <<shape.text>> ELSE <<>>
    IN  IF ~shape.has_table THEN [out |-> frame, exc |-> NoExc]
        ELSE IF shape.rows_exc # NoExc THEN [out |-> frame, exc |-> shape.rows_exc]
        ELSE LET t == WalkRows(shape.rows, 1)
             IN  [out |-> frame \o t.out, exc |-> t.exc]

RECURSIVE WalkShapes(_, _)
WalkShapes(shapes, i) ==
    IF i > Len(shapes) THEN [out |-> <<>>, exc |-> NoExc]
    ELSE LET here == WalkShape(shapes[i])
         IN  IF here.exc # NoExc THEN here
             ELSE LET rest == WalkShapes(shapes, i + 1)
                  IN  [out |-> here.out \o rest.out, exc |-> rest.exc]

RECURSIVE WalkSlides(_, _)
\* for slide in prs.slides: for shape in slide.shapes: ...   (slides i..)
WalkSlides(slides, i) ==
    IF i > Len(slides) THEN [out |-> <<>>, exc |-> NoExc]
    ELSE LET here == WalkShapes(slides[i], 1)
         IN  IF here.exc # NoExc THEN here
             ELSE LET rest == WalkSlides(slides, i + 1)
                  IN  [out |-> here.out \o rest.out, exc |-> rest.exc]

\* returns (segments, merged_text) unless raised: the walk of the slides is
\* outside the try, so what it raises leaves the function
get_pptx_text(pptx_file) ==
    IF pptx_file.parse_exc
    THEN [segments |-> {}, merged_text |-> <<>>, st_error |-> <<"pptx">>,
          raised |-> FALSE, full_text |-> <<>>]
    ELSE LET walk == WalkSlides(pptx_file.slides, 1)
             merged_text == JoinNL(walk.out)
         IN  IF walk.exc # NoExc
             THEN [segments |-> {}, merged_text |-> <<>>, st_error |-> <<>>,
                   raised |-> TRUE, full_text |-> walk.out]
             ELSE [segments |-> split_into_segments(merged_text),
                   merged_text |-> merged_text, st_error |-> <<>>,
                   raised |-> FALSE, full_text |-> walk.out]

(***************************************************************************)
(* 4. call_qwen_analysis                                                   *)
(***************************************************************************)
\* s[:n]
Prefix(s, n) == SubSeq(s, 1, IF Len(s) < n THEN Len(s) ELSE n)

\* "\n".join([f"- {item}" for item in suspicious_list])
items_str(suspicious_list) ==
    JoinNL([k \in 1..Len(suspicious_list) |-> <<"-", " ">> \o suspicious_list[k]])

\* the two places of the prompt that are filled in: lines 101-116
build_prompt(base_context, suspicious_list) ==
    [source |-> Prefix(base_context, 30000), target |-> items_str(suspicious_list)]

\* what dashscope.Generation.call does: it answers with status OK, answers
\* with another status, or raises
Responses == {"ok", "status", "exception"}

\* the request dashscope.Generation.call sends at line 119: the prompt, under
\* the key dashscope.api_key holds when the call is made
Generation_request(global_key, base_context, suspicious_list) ==
    [api_key |-> global_key,
     prompt |-> build_prompt(base_context, suspicious_list),
     suspicious_list |-> suspicious_list]

\* the str the function returns: lines 118-128
Generation_result(response) ==
    IF response = "ok" THEN <<"output.text">>
    ELSE IF response = "status" THEN <<"API", "code", "message">>
    ELSE <<"error", "str(e)">>

\* the function when no other thread writes dashscope.api_key between its
\* lines 97 and 119
call_qwen_analysis(key, base_context, suspicious_list, response) ==
    [request |-> Generation_request(key, base_context, suspicious_list),
     result  |-> Generation_result(response)]

(***************************************************************************)
(* Inputs: texts and reference documents                                   *)
(***************************************************************************)
Alphabet == {"a", ".", " ", "U3000", "\n", "U3002"}

RECURSIVE StringsUpTo(_)
\* every str over Alphabet of at most n characters
StringsUpTo(n) ==
    IF n = 0 THEN {<<>>}
    ELSE LET shorter == StringsUpTo(n - 1)
         IN  shorter \cup {Append(s, c) : s \in {x \in shorter : Len(x) = n - 1},
                                          c \in Alphabet}

Texts == StringsUpTo(MaxLen)

Dg == <<"1", "2", "3", "4", "5", "6", "7", "8", "9">>

\* the text of paragraph p of cell c of row r of table t: every place of a
\* generated document holds a text of its own
ParaText(t, r, c, p) == <<"T", Dg[t], "R", Dg[r], "C", Dg[c], "P", Dg[p]>>

\* its w:t nodes, among them a node without text and one with empty text
ParaNodes(t, r, c, p) ==
    << <<"T", Dg[t], "R", Dg[r]>>, None, <<>>, <<"C", Dg[c], "P", Dg[p]>> >>

\* cell.text as docx gives it: the paragraphs of the cell joined by newlines
CellText(t, r, c) ==
    IF c = 1 THEN JoinNL(<<ParaText(t, r, c, 1), ParaText(t, r, c, 2)>>)
    ELSE ParaText(t, r, c, 1)

TopParaText(k) == <<"P", "a", "r", "a", Dg[k]>>

RawSites == {"none", "tc_lst", "p_lst", "xpath"}

\* where the direct read of a row raises (dsite 0: row.cells, 2: the second
\* cell.text) and what, and where the raw read raises
RowOpts ==
    {[dsite |-> 0, dexc |-> NoExc, rsite |-> "none"]}
    \cup {[dsite |-> s, dexc |-> "KeyError", rsite |-> "none"] : s \in {0, 2}}
    \cup {[dsite |-> s, dexc |-> e, rsite |-> f] :
              s \in {0, 2}, e \in Structural, f \in RawSites}

MkPara(t, r, c, p, exc) == [xpath_exc |-> exc, t_nodes |-> ParaNodes(t, r, c, p)]

\* a row of two cells, the first of two paragraphs, the second of one
MkRow(t, r, o) ==
    [cells_exc |-> IF o.dsite = 0 THEN o.dexc ELSE NoExc,
     cells |-> << [text_exc |-> NoExc, text |-> CellText(t, r, 1)],
                  [text_exc |-> IF o.dsite = 2 THEN o.dexc ELSE NoExc,
                   text |-> CellText(t, r, 2)] >>,
     tc_exc |-> IF o.rsite = "tc_lst" THEN "Exception" ELSE NoExc,
     tc_lst |-> << [p_exc |-> NoExc,
                    p_lst |-> << MkPara(t, r, 1, 1, NoExc),
                                 MkPara(t, r, 1, 2,
                                    IF o.rsite = "xpath" THEN "Exception" ELSE NoExc) >>],
                   [p_exc |-> IF o.rsite = "p_lst" THEN "Exception" ELSE NoExc,
                    p_lst |-> << MkPara(t, r, 2, 1, NoExc) >>] >>]

OkRow == [dsite |-> 0, dexc |-> NoExc, rsite |-> "none"]

\* table t with the rows the options describe
MkTable(t, opts) ==
    [rows_exc |-> NoExc, rows |-> [r \in 1..Len(opts) |-> MkRow(t, r, opts[r])]]

\* table t whose table.rows raises
BrokenTable(t) == [rows_exc |-> "Exception", rows |-> <<MkRow(t, 1, OkRow)>>]

\* what the rows beside the varied one are: read directly, read through the
\* fallback, or failing with an exception that is not structural
SideOpts ==
    {OkRow,
     [dsite |-> 0, dexc |-> "ValueError", rsite |-> "none"],
     [dsite |-> 0, dexc |-> "KeyError", rsite |-> "none"]}

\* tables of MaxRows rows: one row of every kind, at every place
VariedTables(t) ==
    {MkTable(t, [opts EXCEPT ![r] = o]) :
        opts \in [1..MaxRows -> SideOpts], r \in 1..MaxRows, o \in RowOpts}
    \cup {BrokenTable(t)}

PlainTables(t) == {MkTable(t, <<OkRow>>), BrokenTable(t)}

MkDoc(np, tables) ==
    [parse_exc |-> FALSE, paragraphs |-> [k \in 1..np |-> TopParaText(k)],
     tables |-> tables]

\* a file docx.Document cannot open, whatever it holds
UnreadableDoc ==
    [parse_exc |-> TRUE, paragraphs |-> <<TopParaText(1)>>,
     tables |-> <<MkTable(1, <<OkRow>>)>>]

Docs ==
    {UnreadableDoc}
    \cup {MkDoc(np, <<a, b>>) : np \in 0..MaxParas,
                                a \in VariedTables(1), b \in PlainTables(2)}
    \cup {MkDoc(np, <<a, b>>) : np \in 0..MaxParas,
                                a \in PlainTables(1), b \in VariedTables(2)}

(***************************************************************************)
(* 5. The Streamlit script: lines 132-176.  Streamlit runs the whole       *)
(* script again after every interaction; st.button is True only in the run *)
(* its click starts.                                                       *)
(***************************************************************************)
\* list(S), S a set of segments: the elements of S, each once.  Python does
\* not fix the order: a set of str is iterated in hash-table order, which
\* changes with PYTHONHASHSEED, so every order is an outcome.
Orders(S) ==
    LET n == Cardinality(S)
    IN  {f \in [1..n -> S] : \A i, j \in 1..n : i # j => f[i] # f[j]}

\* list(student_set - base_set) of line 154 for the n segments s01 .. of
\* BigDeck(n) and a reference document without any of them, as CPython 3.11
\* gives it under PYTHONHASHSEED = seed: the numbers of the segments in the
\* order of the list.  The order is that of the hash table of the set.
HashSeeds == {0, 1, 7, 12345}

HashOrder(seed, n) ==
    CASE
       seed = 0 /\ n = 49 ->
            <<5, 41, 28, 23, 2, 37, 40, 20, 33, 6, 26, 29, 48, 3, 16, 38, 44,
              17, 19, 36, 4, 18, 31, 32, 9, 30, 46, 27, 24, 8, 34, 42, 10,
              14, 47, 49, 21, 43, 13, 39, 45, 25, 12, 15, 35, 7, 11, 1, 22>>
    []
       seed = 0 /\ n = 50 ->
            <<5, 41, 28, 23, 2, 37, 40, 20, 33, 6, 26, 29, 48, 3, 16, 38, 44,
              17, 19, 36, 4, 18, 31, 32, 9, 30, 46, 27, 24, 8, 34, 42, 10,
              14, 47, 49, 21, 43, 13, 39, 45, 25, 12, 15, 35, 50, 7, 11, 1,
              22>>
    []
       seed = 0 /\ n = 51 ->
            <<5, 41, 28, 23, 2, 37, 40, 20, 33, 6, 26, 29, 48, 3, 16, 38, 44,
              17, 19, 36, 4, 18, 31, 32, 9, 30, 46, 27, 24, 8, 34, 42, 10,
              14, 47, 49, 21, 43, 13, 39, 45, 25, 12, 15, 35, 50, 7, 11, 1,
              51, 22>>
    []
       seed = 0 /\ n = 52 ->
            <<5, 41, 28, 23, 2, 37, 40, 20, 33, 6, 26, 29, 52, 48, 3, 16, 38,
              44, 17, 19, 36, 4, 18, 31, 32, 9, 30, 46, 27, 24, 8, 34, 42,
              10, 14, 47, 49, 21, 43, 13, 39, 45, 25, 12, 15, 35, 50, 7, 11,
              1, 51, 22>>
    []
       seed = 1 /\ n = 49 ->
            <<20, 22, 3, 30, 23, 36, 44, 48, 15, 11, 10, 34, 35, 42, 43, 17,
              19, 8, 40, 47, 29, 7, 21, 25, 13, 46, 33, 16, 27, 37, 41, 39,
              32, 28, 31, 24, 18, 9, 2, 49, 45, 6, 26, 38, 1, 12, 14, 5, 4>>
    []
       seed = 1 /\ n = 50 ->
            <<20, 22, 3, 50, 30, 23, 36, 44, 48, 15, 11, 10, 34, 35, 42, 43,
              17, 19, 8, 40, 47, 29, 7, 21, 25, 13, 46, 33, 16, 27, 37, 41,
              39, 32, 28, 31, 24, 18, 9, 2, 49, 45, 6, 26, 38, 1, 12, 14, 5,
              4>>
    []
       seed = 1 /\ n = 51 ->
            <<20, 22, 3, 50, 30, 23, 36, 44, 48, 15, 11, 10, 34, 35, 42, 43,
              17, 19, 8, 40, 47, 51, 29, 7, 21, 25, 13, 46, 33, 16, 27, 37,
              41, 39, 32, 28, 31, 24, 18, 9, 2, 49, 45, 6, 26, 38, 1, 12, 14,
              5, 4>>
    []
       seed = 1 /\ n = 52 ->
            <<20, 22, 3, 50, 30, 23, 36, 52, 44, 48, 15, 11, 10, 34, 35, 42,
              43, 17, 19, 8, 40, 47, 51, 29, 7, 21, 25, 13, 46, 33, 16, 27,
              37, 41, 39, 32, 28, 31, 24, 18, 9, 2, 49, 45, 6, 26, 38, 1, 12,
              14, 5, 4>>
    []
       seed = 7 /\ n = 49 ->
            <<32, 4, 11, 7, 29, 5, 28, 19, 12, 6, 17, 18, 21, 27, 45, 24, 23,
              1, 8, 9, 44, 47, 37, 39, 49, 20, 46, 15, 38, 48, 35, 2, 14, 33,
              10, 31, 40, 16, 13, 3, 25, 22, 26, 36, 41, 34, 30, 43, 42>>
    []
       seed = 7 /\ n = 50 ->
            <<32, 4, 11, 7, 29, 5, 28, 19, 12, 6, 17, 18, 21, 27, 45, 24, 23,
              1, 8, 9, 44, 47, 37, 39, 49, 20, 46, 15, 38, 48, 35, 2, 14, 33,
              10, 31, 40, 16, 13, 3, 25, 22, 26, 50, 36, 41, 34, 30, 43, 42>>
    []
       seed = 7 /\ n = 51 ->
            <<32, 4, 11, 7, 29, 5, 28, 19, 12, 51, 6, 17, 18, 21, 27, 45, 24,
              23, 1, 8, 9, 44, 47, 37, 39, 49, 20, 46, 15, 38, 48, 35, 2, 14,
              33, 10, 31, 40, 16, 13, 3, 25, 22, 26, 50, 36, 41, 34, 30, 43,
              42>>
    []
       seed = 7 /\ n = 52 ->
            <<32, 52, 4, 11, 7, 29, 5, 28, 19, 12, 51, 6, 17, 18, 21, 27, 45,
              24, 23, 1, 8, 9, 44, 47, 37, 39, 49, 20, 46, 15, 38, 48, 35, 2,
              14, 33, 10, 31, 40, 16, 13, 3, 25, 22, 26, 50, 36, 41, 34, 30,
              43, 42>>
    []
       seed = 12345 /\ n = 49 ->
            <<15, 17, 40, 18, 43, 33, 10, 31, 4, 29, 2, 7, 9, 32, 11, 30, 45,
              13, 41, 5, 6, 20, 28, 25, 24, 23, 42, 12, 27, 8, 19, 16, 21,
              49, 26, 22, 47, 35, 37, 44, 3, 39, 34, 14, 1, 46, 36, 48, 38>>
    []
       seed = 12345 /\ n = 50 ->
            <<15, 17, 40, 18, 43, 33, 10, 31, 4, 29, 2, 7, 9, 32, 11, 30, 45,
              13, 41, 5, 6, 20, 28, 25, 24, 23, 42, 12, 27, 8, 19, 16, 21,
              49, 26, 22, 47, 35, 37, 44, 3, 39, 34, 14, 1, 50, 46, 36, 48,
              38>>
    []
       seed = 12345 /\ n = 51 ->
            <<15, 17, 40, 18, 43, 33, 10, 31, 4, 29, 2, 7, 9, 32, 11, 30, 45,
              13, 41, 5, 6, 20, 28, 25, 24, 23, 42, 12, 27, 8, 51, 19, 16,
              21, 49, 26, 22, 47, 35, 37, 44, 3, 39, 34, 14, 1, 50, 46, 36,
              48, 38>>
    []
       seed = 12345 /\ n = 52 ->
            <<15, 17, 40, 18, 43, 33, 10, 31, 4, 29, 52, 2, 7, 9, 32, 11, 30,
              45, 13, 41, 5, 6, 20, 28, 25, 24, 23, 42, 12, 27, 8, 51, 19,
              16, 21, 49, 26, 22, 47, 35, 37, 44, 3, 39, 34, 14, 1, 50, 46,
              36, 48, 38>>

\* the operands are taken the other way round
set_difference_swapped(student_set, base_set) == base_set \ student_set

\* student_set - base_set: line 154
set_difference(student_set, base_set) == student_set \ base_set

\* everything is sent whatever its length
truncate_none(ghost_content) == ghost_content

\* ghost_content[:50] when len(ghost_content) > 50: lines 165-167
truncate(ghost_content) ==
    IF Len(ghost_content) > 50 THEN Prefix(ghost_content, 50) ELSE ghost_content

\* what a run of the script leaves: the values of its variables and what it
\* rendered (st_error, st_success, st_warning_count, truncation_notice,
\* ai_result, expander), crashed when an exception ended the run
BlankUi ==
    [ran |-> FALSE, crashed |-> FALSE, st_error |-> <<>>,
     base_set |-> {}, base_raw |-> <<>>, student_set |-> {},
     ghost_computed |-> <<>>, st_success |-> FALSE, st_warning_count |-> <<>>,
     button_shown |-> FALSE, clicked |-> FALSE, truncation_notice |-> FALSE,
     calls |-> <<>>, ai_result |-> <<>>, expander |-> <<>>]

\* st.file_uploader gives None until a file is chosen
NoFile == [uploaded |-> FALSE]

Uploaded(file) == file # NoFile

\* lines 156-167 and 175-176, with ghost the list made at line 154: the page
\* of a run that does not call the service, and the page up to the call of
\* line 170 of a run that does
Render(d, p, key, button, ghost) ==
    LET parsed == [BlankUi EXCEPT !.ran = TRUE,
                                  !.st_error = d.st_error \o p.st_error,
                                  !.base_set = d.segments,
                                  !.base_raw = d.merged_text,
                                  !.student_set = p.segments,
                                  !.ghost_computed = ghost]
    IN  IF ghost = <<>>
        THEN [parsed EXCEPT !.st_success = TRUE, !.expander = <<ghost>>]
        ELSE LET warned == [parsed EXCEPT !.st_warning_count = <<Len(ghost)>>,
                                          !.button_shown = TRUE,
                                          !.clicked = button]
             IN  IF ~button THEN [warned EXCEPT !.expander = <<ghost>>]
                 ELSE IF key = <<>>
                 THEN [warned EXCEPT !.st_error = @ \o <<"api_key">>,
                                     !.expander = <<ghost>>]
                 ELSE [warned EXCEPT !.truncation_notice = (Len(ghost) > 50)]

\* the run that left this page stands in call_qwen_analysis (line 170)
AtCall(page, key) == page.clicked /\ key # <<>>

(***************************************************************************)
(* Inputs of the script                                                    *)
(***************************************************************************)
Revenue == <<"R", "e", "v", "e", "n", "u", "e", " ", "g", "r", "e", "w", " ", "1", "0", "%", ".">>
Profit == <<"P", "r", "o", "f", "i", "t", " ", "d", "o", "u", "b", "l", "e", "d", ".">>
Mixed == <<"a", "b", " ", "c", "U3002", "x", "y", "z", "UFF1B", "n", "o">>

Pool == {Revenue, Profit, Mixed}

\* the sequences of up to n elements of S, no element twice
SeqsUpTo(S, n) ==
    UNION {{f \in [1..k -> S] : \A i, j \in 1..k : i # j => f[i] # f[j]} :
              k \in 0..n}

TextDoc(paragraphs) == [parse_exc |-> FALSE, paragraphs |-> paragraphs, tables |-> <<>>]

\* a document whose table has a row with a merged cell, read by the fallback
MergedRowDoc ==
    MkDoc(1, <<MkTable(1, <<OkRow, [dsite |-> 0, dexc |-> "ValueError",
                                    rsite |-> "none"]>>)>>)

LongDoc == TextDoc(<<SubSeq([i \in 1..LongLen |-> "x"], 1, LongLen)>>)

FlowDocs ==
    {UnreadableDoc, MergedRowDoc}
    \cup {TextDoc(ps) : ps \in SeqsUpTo({Revenue, Mixed}, MaxParas)}

TextShape(text) ==
    [has_text |-> TRUE, has_text_frame |-> TRUE, text |-> text,
     has_table |-> FALSE, rows_exc |-> NoExc, rows |-> <<>>]

\* a picture: no text attribute, no text frame, no table
PictureShape ==
    [has_text |-> FALSE, has_text_frame |-> FALSE, text |-> <<"p", "i", "c">>,
     has_table |-> FALSE, rows_exc |-> NoExc, rows |-> <<>>]

\* a graphic frame with a table of two rows; with_frame makes it carry a
\* text frame too; site says where the walk of the table raises
TableShape(with_frame, site) ==
    [has_text |-> with_frame, has_text_frame |-> with_frame, text |-> Profit,
     has_table |-> TRUE,
     rows_exc |-> IF site = "rows" THEN "Exception" ELSE NoExc,
     rows |-> << <<[text_exc |-> NoExc, text |-> Profit],
                   [text_exc |-> NoExc, text |-> TopParaText(1)]>>,
                 <<[text_exc |-> IF site = "text" THEN "Exception" ELSE NoExc,
                    text |-> Revenue],
                   [text_exc |-> NoExc, text |-> Profit]>> >>]

Deck(slides) == [parse_exc |-> FALSE, slides |-> slides]

\* a file Presentation cannot open, whatever it holds
UnreadableDeck == [parse_exc |-> TRUE, slides |-> << <<TextShape(Profit)>> >>]

Digit(d) == <<"0", "1", "2", "3", "4", "5", "6", "7", "8", "9">>[d + 1]

\* the text of shape k of a generated deck: a segment of its own
SegText(k) == <<"s", Digit(k \div 10), Digit(k % 10)>>

\* n shapes, ten to a slide
BigDeck(n) ==
    Deck([sl \in 1..((n + 9) \div 10) |->
            [k \in 1..(IF sl * 10 <= n THEN 10 ELSE n - (sl - 1) * 10) |->
                TextShape(SegText((sl - 1) * 10 + k))]])

FlowDecks ==
    {UnreadableDeck}
    \cup {Deck(<< [k \in 1..Len(ts) |-> TextShape(ts[k])] >>) :
              ts \in SeqsUpTo(Pool, MaxItems) \cup {<<Profit, Profit>>}}
    \cup {Deck(<< <<TextShape(Revenue), PictureShape>>, <<TableShape(f, site)>> >>) :
              f \in BOOLEAN, site \in {"none", "rows", "text"}}

ApiKeys == {<<>>, <<"s", "k">>}

\* get_docx_text and get_pptx_text are functions of the uploaded file alone:
\* their results for the files of the model, tabulated once
DocxTable == [d \in FlowDocs |-> get_docx_text(d)]
PptxTable == [p \in FlowDecks |-> get_pptx_text(p)]

\* line 154 for the files of the model: the lists list(student_set - base_set)
\* can be
GhostTable ==
    [d \in FlowDocs |-> [p \in FlowDecks |->
        IF DocxTable[d].raised \/ PptxTable[p].raised THEN {}
        ELSE Orders(set_difference(PptxTable[p].segments, DocxTable[d].segments))]]

\* the pages one run of the script can leave, up to the call of the service
\* when it makes one
Script(bf, sf, key, button) ==
    IF ~(Uploaded(bf) /\ Uploaded(sf)) THEN {BlankUi}
    ELSE LET d == DocxTable[bf]
         IN  IF d.raised
             THEN {[BlankUi EXCEPT !.ran = TRUE, !.crashed = TRUE]}
             ELSE LET p == PptxTable[sf]
                  IN  IF p.raised
                      THEN {[BlankUi EXCEPT !.ran = TRUE, !.crashed = TRUE,
                                            !.st_error = d.st_error,
                                            !.base_set = d.segments,
                                            !.base_raw = d.merged_text]}
                      ELSE {Render(d, p, key, button, ghost) :
                               ghost \in GhostTable[bf][sf]}

(***************************************************************************)
(* The session                                                             *)
(***************************************************************************)
NotCalled == [fn |-> "none"]

\* the key of another session of the same Streamlit process
OtherKey == <<"o", "k">>

Init ==
    /\ arg = NotCalled /\ ret = NotCalled
    /\ base_file = NoFile /\ student_file = NoFile
    /\ api_key = <<>>
    /\ ui = BlankUi
    /\ run = "idle"
    /\ dashscope_api_key = None

\* Streamlit runs the script from its first line with the widgets as given.
\* A run that gets to call_qwen_analysis writes dashscope.api_key (line 97),
\* builds the prompt and stands before dashscope.Generation.call (line 119).
\* The script thread takes up an event only at a call of st: an event that
\* comes while it is between line 97 and line 119 waits until the request has
\* left, and a run that waits for the answer is given up for the new one.
RunScript(bf, sf, key, button) ==
    /\ run # "line_119"
    /\ ui' \in Script(bf, sf, key, button)
    /\ IF AtCall(ui', key)
       THEN run' = "line_119" /\ dashscope_api_key' = key
       ELSE run' = "idle" /\ UNCHANGED dashscope_api_key

\* A file_uploader takes a file whether or not it holds one, the same file
\* again too, and gives it up (the cross of the widget).
UploadBase ==
    /\ \E d \in FlowDocs :
          /\ base_file' = d
          /\ RunScript(d, student_file, api_key, FALSE)
    /\ UNCHANGED <<arg, ret, student_file, api_key>>

RemoveBase ==
    /\ base_file # NoFile
    /\ base_file' = NoFile
    /\ RunScript(NoFile, student_file, api_key, FALSE)
    /\ UNCHANGED <<arg, ret, student_file, api_key>>

UploadStudent ==
    /\ \E p \in FlowDecks :
          /\ student_file' = p
          /\ RunScript(base_file, p, api_key, FALSE)
    /\ UNCHANGED <<arg, ret, base_file, api_key>>

RemoveStudent ==
    /\ student_file # NoFile
    /\ student_file' = NoFile
    /\ RunScript(base_file, NoFile, api_key, FALSE)
    /\ UNCHANGED <<arg, ret, base_file, api_key>>

\* the text_input runs the script when its value has changed
SetApiKey ==
    /\ \E k \in ApiKeys :
          /\ k # api_key
          /\ api_key' = k
          /\ RunScript(base_file, student_file, k, FALSE)
    /\ UNCHANGED <<arg, ret, base_file, student_file>>

\* Streamlit's Rerun: the script runs again, no widget changed
Rerun ==
    /\ RunScript(base_file, student_file, api_key, FALSE)
    /\ UNCHANGED <<arg, ret, base_file, student_file, api_key>>

\* a click on the button the last run rendered: st.button is True in the run
\* the click starts
ClickAnalyze ==
    /\ ui.button_shown
    /\ RunScript(base_file, student_file, api_key, TRUE)
    /\ UNCHANGED <<arg, ret, base_file, student_file, api_key>>

\* line 119: the request leaves, with the list of line 167 and the reference
\* text, under the key dashscope.api_key holds now
Generation_call ==
    /\ run = "line_119"
    /\ ui' = [ui EXCEPT !.calls =
                 <<Generation_request(dashscope_api_key, ui.base_raw,
                                      truncate(ui.ghost_computed))>>]
    /\ run' = "waiting"
    /\ UNCHANGED <<arg, ret, base_file, student_file, api_key, dashscope_api_key>>

\* lines 120-128 and 172-176: the answer comes, the run renders it and the
\* expander, whose list is the list of line 167
ReceiveAnswer ==
    /\ run = "waiting"
    /\ \E response \in Responses :
          ui' = [ui EXCEPT !.ai_result = <<Generation_result(response)>>,
                           !.expander = <<truncate(ui.ghost_computed)>>]
    /\ run' = "idle"
    /\ UNCHANGED <<arg, ret, base_file, student_file, api_key, dashscope_api_key>>

\* line 97 in a run of another session: the sessions of a process share the
\* module dashscope
OtherSession_line_97 ==
    /\ dashscope_api_key # OtherKey
    /\ dashscope_api_key' = OtherKey
    /\ UNCHANGED <<arg, ret, base_file, student_file, api_key, ui, run>>

Next ==
    \/ UploadBase \/ RemoveBase
    \/ UploadStudent \/ RemoveStudent
    \/ SetApiKey
    \/ Rerun
    \/ ClickAnalyze
    \/ Generation_call
    \/ ReceiveAnswer
    \/ OtherSession_line_97

Spec == Init /\ [][Next]_vars


(***************************************************************************)
(* Direct calls of the functions                                           *)
(***************************************************************************)

FlowIdle ==
    /\ base_file = NoFile /\ student_file = NoFile
    /\ api_key = <<>> /\ ui = BlankUi
    /\ run = "idle" /\ dashscope_api_key = None

InitText ==
    /\ arg \in Texts \cup {None}
    /\ ret = NotCalled
    /\ FlowIdle

Call_clean_text ==
    /\ ret = NotCalled
    /\ ret' = [fn |-> "clean_text", value |-> clean_text(arg)]
    /\ UNCHANGED <<arg, base_file, student_file, api_key, ui, run, dashscope_api_key>>

\* re.split raises TypeError on None: the function is called on a str
Call_split_into_segments ==
    /\ ret = NotCalled
    /\ arg # None
    /\ ret' = [fn |-> "split_into_segments", value |-> split_into_segments(arg)]
    /\ UNCHANGED <<arg, base_file, student_file, api_key, ui, run, dashscope_api_key>>

NextText == Call_clean_text \/ Call_split_into_segments

SpecText == InitText /\ [][NextText]_vars

InitDocx ==
    /\ arg \in Docs
    /\ ret = NotCalled
    /\ FlowIdle

Call_get_docx_text ==
    /\ ret = NotCalled
    /\ ret' = [fn |-> "get_docx_text", value |-> get_docx_text(arg)]
    /\ UNCHANGED <<arg, base_file, student_file, api_key, ui, run, dashscope_api_key>>

NextDocx == Call_get_docx_text

SpecDocx == InitDocx /\ [][NextDocx]_vars

\* Lines 156-176 on their own.  The script gets there with the results of the
\* two extractions and the list of line 154, here the lists CPython gives for
\* the large presentations under the seeds of HashSeeds.
ReviewDocs == {UnreadableDoc, TextDoc(<<Revenue>>), LongDoc}

ReviewCases(doc, n, k) ==
    LET d == get_docx_text(doc)
        p == get_pptx_text(BigDeck(n))
    IN  {[fn |-> "render", d |-> d, p |-> p, key |-> k, ghost |-> g] :
            g \in {l \in {SubSeq([i \in 1..n |-> SegText(HashOrder(seed, n)[i])], 1, n) :
                              seed \in HashSeeds} :
                      {l[i] : i \in 1..n} = set_difference(p.segments, d.segments)}}

ReviewInputs ==
    UNION {ReviewCases(doc, n, k) :
              doc \in ReviewDocs, n \in (MaxGhost - 2)..MaxGhost, k \in ApiKeys}

InitRender ==
    /\ arg \in ReviewInputs
    /\ ret = NotCalled
    /\ FlowIdle

\* a run in which the button is not clicked: the run that follows the
\* uploads and every later rerun.  As in RunScript, it waits while the thread
\* is between line 97 and line 119 and takes the place of a run that waits
\* for the answer.
Run_render ==
    /\ run # "line_119"
    /\ ui' = Render(arg.d, arg.p, arg.key, FALSE, arg.ghost)
    /\ run' = "idle"
    /\ UNCHANGED <<arg, ret, base_file, student_file, api_key, dashscope_api_key>>

\* the run a click on the button starts, to its end or to line 119
Click_render ==
    /\ ui.button_shown
    /\ run # "line_119"
    /\ ui' = Render(arg.d, arg.p, arg.key, TRUE, arg.ghost)
    /\ IF AtCall(ui', arg.key)
       THEN run' = "line_119" /\ dashscope_api_key' = arg.key
       ELSE run' = "idle" /\ UNCHANGED dashscope_api_key
    /\ UNCHANGED <<arg, ret, base_file, student_file, api_key>>

NextRender ==
    \/ Run_render
    \/ Click_render
    \/ Generation_call
    \/ ReceiveAnswer
    \/ OtherSession_line_97

SpecRender == InitRender /\ [][NextRender]_vars

(***************************************************************************)
(* Properties                                                              *)
(***************************************************************************)
Range(f) == {f[i] : i \in DOMAIN f}

\* what the direct read of a row raises, read off the document: row.cells
\* first, then the first cell.text that raises
DirectExc(row) ==
    IF row.cells_exc # NoExc THEN row.cells_exc
    ELSE IF \E c \in DOMAIN row.cells : row.cells[c].text_exc # NoExc
    THEN row.cells[CHOOSE c \in DOMAIN row.cells :
                      /\ row.cells[c].text_exc # NoExc
                      /\ \A b \in 1..(c - 1) : row.cells[b].text_exc = NoExc].text_exc
    ELSE NoExc

\* some call of the raw-markup read of the row raises
RawFails(row) ==
    \/ row.tc_exc # NoExc
    \/ \E c \in DOMAIN row.tc_lst :
          \/ row.tc_lst[c].p_exc # NoExc
          \/ \E q \in DOMAIN row.tc_lst[c].p_lst :
                row.tc_lst[c].p_lst[q].xpath_exc # NoExc

\* an exception leaves the row-level handlers at row r of the table
EscapesAt(table, r) == DirectExc(table.rows[r]) \notin Structural \cup {NoExc}

\* the walk of the table gets to row r
Reached(table, r) ==
    /\ table.rows_exc = NoExc
    /\ \A q \in 1..(r - 1) : ~EscapesAt(table, q)

\* the table fails at the table level
TableFails(table) ==
    \/ table.rows_exc # NoExc
    \/ \E r \in DOMAIN table.rows : EscapesAt(table, r)

\* no call made while the table is walked raises
WellFormed(table) ==
    /\ table.rows_exc = NoExc
    /\ \A r \in DOMAIN table.rows : DirectExc(table.rows[r]) = NoExc

\* the fragment is text of table t / of row r of table t
FromTable(fragment, t) ==
    Len(fragment) >= 2 /\ fragment[1] = "T" /\ fragment[2] = Dg[t]

FromRow(fragment, t, r) ==
    /\ Len(fragment) >= 4 /\ FromTable(fragment, t)
    /\ fragment[3] = "R" /\ fragment[4] = Dg[r]

\* the fragments of the cells of row r of table t, as the direct read gives them
CellTexts(doc, t, r) ==
    {doc.tables[t].rows[r].cells[c].text : c \in DOMAIN doc.tables[t].rows[r].cells}

\* the texts of the paragraphs of row r of table t, as its markup holds them
ParaTexts(doc, t, r) ==
    UNION {{ParaText(t, r, c, q) : q \in DOMAIN doc.tables[t].rows[r].tc_lst[c].p_lst} :
              c \in DOMAIN doc.tables[t].rows[r].tc_lst}

DocxReturned == ret.fn = "get_docx_text"

\* row r of table t is read by the fallback, which succeeds
FallbackRow(doc, t, r) ==
    /\ Reached(doc.tables[t], r)
    /\ DirectExc(doc.tables[t].rows[r]) \in Structural
    /\ ~RawFails(doc.tables[t].rows[r])

\* C1: a row whose direct cell read fails with ValueError or IndexError and
\* whose raw-markup read succeeds does not abort get_docx_text: the fragment
\* list holds the (non-empty) text of every paragraph of the row's cells,
\* every top-level paragraph, and the cells of every row that is read
\* directly, of the same table and of the other tables.
C1_FallbackRowExtracted ==
    DocxReturned =>
        LET doc == arg
            out == ret.value
        IN  \A t \in DOMAIN doc.tables : \A r \in DOMAIN doc.tables[t].rows :
                FallbackRow(doc, t, r) =>
                    /\ ~out.raised /\ out.st_error = <<>>
                    /\ <<>> \notin ParaTexts(doc, t, r)
                    /\ ParaTexts(doc, t, r) \subseteq Range(out.full_text)
                    /\ Range(doc.paragraphs) \subseteq Range(out.full_text)
                    /\ \A u \in DOMAIN doc.tables : \A q \in DOMAIN doc.tables[u].rows :
                          (/\ Reached(doc.tables[u], q)
                           /\ DirectExc(doc.tables[u].rows[q]) = NoExc)
                          => CellTexts(doc, u, q) \subseteq Range(out.full_text)

\* a document with a fallback row between rows read directly has been read
C1_Witness ==
    /\ DocxReturned
    /\ \E t \in DOMAIN arg.tables : \E r \in DOMAIN arg.tables[t].rows :
          /\ FallbackRow(arg, t, r)
          /\ arg.tables[t].rows[r].cells_exc = "ValueError"
          /\ ParaTexts(arg, t, r) \subseteq Range(ret.value.full_text)
          /\ \E q \in DOMAIN arg.tables[t].rows :
                q # r /\ CellTexts(arg, t, q) \subseteq Range(ret.value.full_text)

\* C2: when one table fails at the table level, at whatever point of its
\* walk, and the other tables are well-formed, the result holds every
\* paragraph and every cell of the other tables and no fragment of the
\* failing table.
C2_FailedTableContributesNothing ==
    DocxReturned =>
        LET doc == arg
            out == ret.value
        IN  \A t \in DOMAIN doc.tables :
                (/\ TableFails(doc.tables[t])
                 /\ \A u \in DOMAIN doc.tables : u # t => WellFormed(doc.tables[u]))
                =>
                /\ Range(doc.paragraphs) \subseteq Range(out.full_text)
                /\ \A u \in DOMAIN doc.tables : \A q \in DOMAIN doc.tables[u].rows :
                      u # t => CellTexts(doc, u, q) \subseteq Range(out.full_text)
                /\ \A i \in DOMAIN out.full_text : ~FromTable(out.full_text[i], t)

\* C9: a row whose direct read fails structurally and whose raw-markup read
\* fails too, at whatever cell or paragraph, contributes no fragment; no
\* error is surfaced, and the later rows and tables are still extracted.
C9_FailedFallbackRowSkipped ==
    DocxReturned =>
        LET doc == arg
            out == ret.value
        IN  \A t \in DOMAIN doc.tables : \A r \in DOMAIN doc.tables[t].rows :
                (/\ Reached(doc.tables[t], r)
                 /\ DirectExc(doc.tables[t].rows[r]) \in Structural
                 /\ RawFails(doc.tables[t].rows[r]))
                =>
                /\ out.st_error = <<>> /\ ~out.raised
                /\ \A i \in DOMAIN out.full_text : ~FromRow(out.full_text[i], t, r)
                /\ \A u \in DOMAIN doc.tables : \A q \in DOMAIN doc.tables[u].rows :
                      (/\ u > t \/ (u = t /\ q > r)
                       /\ Reached(doc.tables[u], q)
                       /\ DirectExc(doc.tables[u].rows[q]) = NoExc)
                      => CellTexts(doc, u, q) \subseteq Range(out.full_text)


TextReturned(fn) == ret.fn = fn

\* C4: every element of the set split_into_segments returns holds no
\* whitespace character and no terminator character, has at least 3
\* characters, and is there once (the result is a set); clean_text of an
\* empty or None input is the empty string.
C4_SegmentsNormalized ==
    /\ TextReturned("split_into_segments") =>
          \A seg \in ret.value :
                /\ Len(seg) >= 3
                /\ \A i \in 1..Len(seg) : seg[i] \notin Whitespace \cup Terminators
    /\ (TextReturned("clean_text") /\ arg \in {None, <<>>}) => ret.value = <<>>

\* a text with whitespace inside a sentence and a terminator has been split
C4_Witness ==
    /\ TextReturned("split_into_segments")
    /\ ret.value # {}
    /\ \E i \in 2..(Len(arg) - 1) : \E j \in 1..Len(arg) :
          /\ arg[i] \in Whitespace /\ arg[i-1] = "a" /\ arg[i+1] = "a"
          /\ i < j /\ arg[j] \in Terminators

Compared == ui.ran /\ ~ui.crashed

\* the run that left the page has come to its end
Finished == run = "idle"

\* C3: the ghost list holds exactly the elements of the presentation set
\* that are not in the reference set, each once, and the success indicator
\* is shown exactly when every presentation segment is in the reference set.
C3_GhostIsSetDifference ==
    Compared =>
        LET R == ui.base_set
            P == ui.student_set
            ghost == ui.ghost_computed
        IN  /\ Range(ghost) = {x \in P : x \notin R}
            /\ \A i, j \in DOMAIN ghost : ghost[i] = ghost[j] => i = j
            /\ ui.st_success <=> (P \subseteq R)
            /\ (P = R => ghost = <<>>)
            /\ (R = {} => Range(ghost) = P)
            /\ (P = {} => ghost = <<>>)

\* a comparison of two sets that share a segment and differ in another
C3_Witness ==
    /\ Compared
    /\ ui.ghost_computed # <<>>
    /\ ui.base_set \cap ui.student_set # {}
    /\ ui.base_set \ ui.student_set # {}

RevenueDoc == TextDoc(<<Revenue>>)
RevenueProfitDeck == Deck(<< <<TextShape(Revenue), TextShape(Profit)>> >>)

EndToEnd2 == base_file = RevenueDoc /\ student_file = RevenueProfitDeck /\ ui.ran

\* C5 as claimed: with reference ["Revenue grew 10%."] and presentation
\* ["Revenue grew 10%.", "Profit doubled."] the ghost list is the one segment
\* "Profit doubled" (with or without its space), the '.' being a split point
\* that is not part of the segment.
C5_GhostWithoutFullStop ==
    EndToEnd2 =>
        ui.ghost_computed \in {<< <<"P", "r", "o", "f", "i", "t", " ", "d", "o", "u", "b", "l", "e", "d">> >>,
                               << <<"P", "r", "o", "f", "i", "t", "d", "o", "u", "b", "l", "e", "d">> >>}

\* C5 as the code has it: the ghost list is the one segment "Profitdoubled."
\* - whitespace removed, the ASCII '.' no split point and so kept - and the
\* shared sentence, "Revenuegrew10%." in both sets, is not reported.
C5_GhostKeepsFullStop ==
    EndToEnd2 =>
        /\ ui.ghost_computed = << <<"P", "r", "o", "f", "i", "t", "d", "o", "u", "b", "l", "e", "d", ".">> >>
        /\ ui.base_set = { <<"R", "e", "v", "e", "n", "u", "e", "g", "r", "e", "w", "1", "0", "%", ".">> }
        /\ ui.base_set \subseteq ui.student_set
        /\ ~ui.st_success

C5_Witness == EndToEnd2 /\ Len(ui.ghost_computed) = 1

\* the walk of a table of the deck raises, the deck having been opened
DeckTableRaises(deck) ==
    /\ ~deck.parse_exc
    /\ \E sl \in DOMAIN deck.slides : \E sh \in DOMAIN deck.slides[sl] :
          LET shape == deck.slides[sl][sh]
          IN  /\ shape.has_table
              /\ \/ shape.rows_exc # NoExc
                 \/ \E r \in DOMAIN shape.rows : \E c \in DOMAIN shape.rows[r] :
                       shape.rows[r][c].text_exc # NoExc

\* C6: when docx.Document raises, get_docx_text reports the error and
\* returns (empty set, empty string) without raising and without walking a
\* paragraph or a table, and the script runs to its end instead of crashing:
\* the comparison runs against the empty reference set, so the ghost list is
\* the whole presentation set.
C6_FlowCompletesAfterParseFailure ==
    (ui.ran /\ base_file.parse_exc /\ Finished) =>
        /\ "docx" \in Range(ui.st_error)
        /\ ui.base_set = {} /\ ui.base_raw = <<>>
        /\ ~ui.crashed
        /\ Range(ui.ghost_computed) = ui.student_set
        /\ Len(ui.ghost_computed) = Cardinality(ui.student_set)
        /\ Len(ui.expander) = 1

\* What the script does keep of it: get_docx_text absorbs the failure, a run
\* ends early only when the walk of the presentation raises, and a run
\* that gets to the comparison has the whole presentation set as ghost list.
ParseFailureIsAbsorbed ==
    (ui.ran /\ base_file.parse_exc) =>
        /\ "docx" \in Range(ui.st_error)
        /\ ui.base_set = {} /\ ui.base_raw = <<>>
        /\ ui.crashed => DeckTableRaises(student_file)
        /\ ~ui.crashed =>
              /\ Range(ui.ghost_computed) = ui.student_set
              /\ Len(ui.ghost_computed) = Cardinality(ui.student_set)
              /\ Finished => Len(ui.expander) = 1

\* C7: when the walk of a shape's table raises, get_pptx_text surfaces a
\* non-fatal error and returns (empty set, empty string), as when the deck
\* cannot be opened: no exception reaches the script.
C7_TableWalkFailureIsParseFailure ==
    (ui.ran /\ DeckTableRaises(student_file)) =>
        /\ ~ui.crashed
        /\ "pptx" \in Range(ui.st_error)
        /\ ui.student_set = {}

\* C8: of a ghost list of more than 50 entries exactly the first 50, in list
\* order, are sent and the truncation notice is shown; a list of at most 50
\* is sent whole, without notice; the reference text in the request is the
\* first 30000 characters of the reference MergedText.
C8_ReviewRequestTruncated ==
    /\ ui.truncation_notice => ui.clicked /\ Len(ui.ghost_computed) > 50
    /\ ui.calls # <<>> =>
          LET ghost == ui.ghost_computed
              n     == Len(ghost)
              sent  == ui.calls[1].suspicious_list
              src   == ui.calls[1].prompt.source
          IN  /\ Len(ui.calls) = 1
              /\ n > 50 => /\ Len(sent) = 50
                           /\ \A i \in 1..50 : sent[i] = ghost[i]
                           /\ ui.truncation_notice
              /\ n <= 50 => sent = ghost /\ ~ui.truncation_notice
              /\ Len(src) = (IF Len(ui.base_raw) > 30000 THEN 30000
                             ELSE Len(ui.base_raw))
              /\ \A i \in 1..Len(src) : src[i] = ui.base_raw[i]

\* more than 50 ghosts and a reference text of more than 30000 characters
\* have been sent for review
C8_Witness ==
    /\ ui.calls # <<>>
    /\ Len(ui.ghost_computed) > 50
    /\ Len(ui.base_raw) > 30000
    /\ ui.truncation_notice

\* C10: whenever the ghost list is not empty, the raw list the expander
\* shows is the complete ghost list: as long as the count in the warning and
\* holding every element of presentation set minus reference set.
C10_RawListIsComplete ==
    (Compared /\ Finished /\ ui.ghost_computed # <<>>) =>
        /\ Len(ui.expander) = 1
        /\ Len(ui.st_warning_count) = 1
        /\ Len(ui.expander[1]) = ui.st_warning_count[1]
        /\ ui.student_set \ ui.base_set \subseteq Range(ui.expander[1])

====

